---- MODULE Spec2Model ----
(***************************************************************************)
(* The rmt (remote magnetic tape) client of paxlib: the handle table, the  *)
(* status parser and the public operations rmt_open, rmt_close, rmt_read,  *)
(* rmt_write, rmt_lseek and rmt_ioctl of src/paxlib/tarbuf.c.              *)
(*                                                                         *)
(* Bytes are one-character strings.  The process's descriptor table is     *)
(* part of the state, because the handle table keeps descriptor numbers    *)
(* and close() and pipe() act on numbers.  The peer is the environment:    *)
(* every operation that gets to read a reply draws the bytes the peer      *)
(* sends from a bounded set; once those bytes are used up a read returns   *)
(* 0 (the peer has closed its end).                                        *)
(*                                                                         *)
(* The caller is the archive layer (remote_open ... remote_close): it      *)
(* keeps the handle rmt_open returned until it gives it to rmt_close, and  *)
(* calls the other operations on handles it keeps, whatever became of      *)
(* the session behind them.  The record of the last call is kept so that   *)
(* what a call returned can be stated about the state it ended in.         *)
(***************************************************************************)
EXTENDS Integers, Sequences, FiniteSets, TLC

----------------------------------------------------------------------------
(* Program constants *)

MAXUNIT == 4

COMMAND_BUFFER_SIZE == 64

EIO == 5

ENOENT == 2

EMFILE == 24

ERANGE == 34

EOPNOTSUPP == 95

O_RDONLY == 0

O_WRONLY == 1

O_RDWR == 2

O_ACCMODE == 3

O_CREAT == 64

O_EXCL == 128

O_TRUNC == 512

O_APPEND == 1024

O_NONBLOCK == 2048

----------------------------------------------------------------------------
(* Bounds of the model *)

\* Largest LENGTH given to rmt_read and rmt_write.
MaxLen == 2

\* Stand-in for INTMAX_MAX (and the largest off_t and long): the largest
\* value the status parsers can represent.
OffMax == 127

\* Descriptor numbers run from 0 to FdLimit - 1: the standard streams, and
\* room for the pipes of MAXUNIT sessions.
FdLimit == 13

\* sizeof (struct mtget) is 2 * MtgetWords bytes.
MtgetWords == 1

\* How many handles the caller of Spec holds at a time.
MaxHeld == 1

\* How many calls of rmt_open the environment lets fail in pipe or fork
\* while the handle table still shows the marks of an earlier failure.
MaxLeaks == 1

\* rmt_open is called while fewer than this many remote-shell processes have
\* outlived their session.
MaxOrphans == 1

\* The errno value the peer reports in its E and F replies (13: EACCES).
PeerErrno == 13

\* The errno value of a fork that fails (11: EAGAIN).
ForkErrno == 11

----------------------------------------------------------------------------
(* Bytes and decimal text *)

NL == "\n"

SP == " "

NUL == "NUL"

Digits == <<"0", "1", "2", "3", "4", "5", "6", "7", "8", "9">>

IsDigit(c) == \E d \in 1..10 : Digits[d] = c

DigitVal(c) == (CHOOSE d \in 1..10 : Digits[d] = c) - 1

Min(a, b) == IF a < b THEN a ELSE b

\* sprintf ("%d") and sprintf ("%jd")
RECURSIVE DecNat(_)
DecNat(n) ==
  IF n < 10 THEN <<Digits[n + 1]>>
  ELSE DecNat(n \div 10) \o <<Digits[(n % 10) + 1]>>

Dec(n) == IF n < 0 THEN <<"-">> \o DecNat(-n) ELSE DecNat(n)

\* SkipSpaces that skips one space at most.
SkipOneSpace(s) == IF s # <<>> /\ Head(s) = SP THEN Tail(s) ELSE s

\* The spaces isspace() accepts that the alphabet holds.
RECURSIVE SkipSpaces(_)
SkipSpaces(s) ==
  IF s # <<>> /\ Head(s) = SP THEN SkipSpaces(Tail(s)) ELSE s

\* The digits of S accumulated onto ACC, as strtol and strtoimax do: the
\* magnitude saturates at OffMax + 2 (past the largest magnitude of either
\* sign), which the caller turns into the overflow result.
RECURSIVE AccDigits(_, _)
AccDigits(s, acc) ==
  IF s = <<>> \/ ~IsDigit(Head(s)) THEN acc
  ELSE AccDigits(Tail(s), Min(OffMax + 2, acc * 10 + DigitVal(Head(s))))

\* The value of a converted number: clamped to the range when the
\* magnitude MAG is outside of it (RANGE: errno = ERANGE); ANY says that a
\* digit was converted (end # s).
Converted(neg, any, mag) ==
  [val   |-> IF neg THEN (IF mag > OffMax + 1 THEN -OffMax - 1 ELSE -mag)
             ELSE (IF mag > OffMax THEN OffMax ELSE mag),
   any   |-> any,
   range |-> IF neg THEN mag > OffMax + 1 ELSE mag > OffMax]

\* The number that starts at the sign or first digit of T.
Signed(neg, u) == Converted(neg, u # <<>> /\ IsDigit(Head(u)), AccDigits(u, 0))

Number(t) ==
  Signed(t # <<>> /\ Head(t) = "-",
         IF t # <<>> /\ Head(t) \in {"-", "+"} THEN Tail(t) ELSE t)

\* strtoimax (s, &end, 10)
strtoimax(s) == Number(SkipSpaces(s))

\* atol (s) and atoi (s): strtol (s, NULL, 10) without the error report
\* (the C library's result on overflow is the clamped value).
atol(s) == strtoimax(s).val

atoi(s) == strtoimax(s).val

----------------------------------------------------------------------------
(* State *)

Handles == 0..(MAXUNIT - 1)

FdNums == 0..(FdLimit - 1)

\* STDIN_FILENO, STDOUT_FILENO and STDERR_FILENO, open when the program
\* starts.
StdFds == {0, 1, 2}

VARIABLES
  from_remote,  \* from_remote[h][PREAD]: the parent's read side of handle h
  to_remote,    \* to_remote[h][PWRITE]: the parent's write side of handle h
  fds,          \* descriptor table of the process: "closed", "std", or a
                \* pipe's "r" or "w" end
  inq,          \* bytes the peer has sent that wait unread on a read end
  errno,
  held,         \* the handles the caller holds: returned by rmt_open and
                \* not yet given to rmt_close (tar->fd of each archive)
  children,     \* the forked remote-shell processes that have not exited
  last          \* the last public call: its arguments, inputs and result

vars == <<from_remote, to_remote, fds, inq, errno, held, children, last>>

\* The part of the state the helpers thread through a call.
World == [from_remote |-> from_remote, to_remote |-> to_remote,
          fds |-> fds, inq |-> inq, errno |-> errno]

read_side(W, handle) == W.from_remote[handle]

write_side(W, handle) == W.to_remote[handle]

IsOpen(W, fd) == fd \in FdNums /\ W.fds[fd] # "closed"

\* close (fd): an invalid descriptor fails with EBADF and changes nothing.
CloseFd(W, fd) ==
  IF IsOpen(W, fd)
  THEN [W EXCEPT !.fds[fd] = "closed", !.inq[fd] = <<>>]
  ELSE W

\* The assignments of _rmt_shutdown, after its two calls of close.
ResetSides(W, handle, errno_value) ==
  [W EXCEPT !.from_remote[handle] = -1,
            !.to_remote[handle] = -1,
            !.errno = errno_value]

rmt_shutdown(W, handle, errno_value) ==
  ResetSides(CloseFd(CloseFd(W, read_side(W, handle)), write_side(W, handle)),
             handle, errno_value)

\* full_write (fd, buffer, length): the count written.  CAP is how many
\* bytes the pipe takes before the write fails (EPIPE); a descriptor that
\* is not an open write end takes none (EBADF).
full_write(W, fd, buffer, cap) ==
  IF fd \in FdNums /\ W.fds[fd] = "w" THEN Min(Len(buffer), cap) ELSE 0

\* Commanded without the call of _rmt_shutdown.
CommandedOpen(W, handle, buffer, written) ==
  IF written = Len(buffer)
  THEN [W |-> W, rc |-> 0, sent |-> buffer]
  ELSE [W |-> [W EXCEPT !.errno = EIO], rc |-> -1,
        sent |-> SubSeq(buffer, 1, written)]

\* The end of do_command, WRITTEN bytes of BUFFER having gone out.
Commanded(W, handle, buffer, written) ==
  IF written = Len(buffer)
  THEN [W |-> W, rc |-> 0, sent |-> buffer]
  ELSE [W |-> rmt_shutdown(W, handle, EIO), rc |-> -1,
        sent |-> SubSeq(buffer, 1, written)]

\* WOK: the pipe takes the whole command; otherwise it takes none of it.
do_command(W, handle, buffer, wok) ==
  Commanded(W, handle, buffer,
            full_write(W, write_side(W, handle), buffer,
                       IF wok THEN Len(buffer) ELSE 0))

\* The bytes safe_read can get from FD: none from a descriptor that is not
\* an open read end (EBADF), none once the peer's bytes are used up (EOF).
Avail(W, fd) ==
  IF fd \in FdNums /\ W.fds[fd] = "r" THEN W.inq[fd] ELSE <<>>

\* FD's unread bytes after a read that left REST.
Consume(W, fd, rest) ==
  IF fd \in FdNums /\ W.fds[fd] = "r" THEN [W EXCEPT !.inq[fd] = rest] ELSE W

\* ReadStatusLine with room for one byte more than command_buffer has.
RECURSIVE ReadStatusLineWide(_, _)
ReadStatusLineWide(s, buf) ==
  IF Len(buf) = COMMAND_BUFFER_SIZE + 1 \/ s = <<>>
  THEN [ok |-> FALSE, line |-> buf, rest |-> s]
  ELSE IF Head(s) = NL
       THEN [ok |-> TRUE, line |-> buf, rest |-> Tail(s)]
       ELSE ReadStatusLineWide(Tail(s), Append(buf, Head(s)))

\* The first loop of get_status_string: one byte at a time into
\* command_buffer until a newline; fails when the buffer is full or a read
\* does not return 1.
RECURSIVE ReadStatusLine(_, _)
ReadStatusLine(s, buf) ==
  IF Len(buf) = COMMAND_BUFFER_SIZE \/ s = <<>>
  THEN [ok |-> FALSE, line |-> buf, rest |-> s]
  ELSE IF Head(s) = NL
       THEN [ok |-> TRUE, line |-> buf, rest |-> Tail(s)]
       ELSE ReadStatusLine(Tail(s), Append(buf, Head(s)))

\* The do-while loop that follows an E or F status: one byte at a time,
\* again while the byte read is a newline.
RECURSIVE SkipMessage(_)
SkipMessage(s) ==
  IF s = <<>> THEN [ok |-> FALSE, rest |-> s]
  ELSE IF Head(s) = NL THEN SkipMessage(Tail(s))
       ELSE [ok |-> TRUE, rest |-> Tail(s)]

\* The result of get_status_string: ok says that it is not null, str is
\* the text after the 'A'.
Null(W) == [W |-> W, ok |-> FALSE, str |-> <<>>]

\* The end of the E and F branch: errno, and the shutdown after an F.
StatusErrno(W, handle, letter, e) ==
  Null(IF letter = "F" THEN rmt_shutdown([W EXCEPT !.errno = e], handle, e)
       ELSE [W EXCEPT !.errno = e])

\* The E and F branch, M being the outcome of skipping the message line.
StatusError(W, handle, letter, err, M) ==
  IF ~M.ok
  THEN Null(rmt_shutdown(Consume(W, read_side(W, handle), M.rest), handle,
                         EIO))
  ELSE StatusErrno(Consume(W, read_side(W, handle), M.rest), handle, letter,
                   IF err <= 0 THEN EIO ELSE err)

\* The dispatch on the first byte of CUR that is not a space.
StatusLetter(W, handle, cur) ==
  IF cur # <<>> /\ Head(cur) \in {"E", "F"}
  THEN StatusError(W, handle, Head(cur), atoi(Tail(cur)),
                   SkipMessage(Avail(W, read_side(W, handle))))
  ELSE IF cur = <<>> \/ Head(cur) # "A"
  THEN Null(rmt_shutdown(W, handle, EIO))
  ELSE [W |-> W, ok |-> TRUE, str |-> Tail(cur)]

\* get_status_string once the status line L has been read.
StatusLine(W, handle, L) ==
  IF ~L.ok
  THEN Null(rmt_shutdown(Consume(W, read_side(W, handle), L.rest), handle,
                         EIO))
  ELSE StatusLetter(Consume(W, read_side(W, handle), L.rest), handle,
                    SkipSpaces(L.line))

get_status_string(W, handle) ==
  StatusLine(W, handle, ReadStatusLine(Avail(W, read_side(W, handle)), <<>>))

\* get_status once the status string G has been read.
StatusCount(G, result) ==
  IF G.ok
  THEN IF 0 <= result
       THEN [W |-> G.W, ret |-> result]
       ELSE [W |-> [G.W EXCEPT !.errno = EIO], ret |-> -1]
  ELSE [W |-> G.W, ret |-> -1]

StatusOf(G) == StatusCount(G, atol(G.str))

get_status(W, handle) == StatusOf(get_status_string(W, handle))

\* StatusOffset without the test of errno, as if get_status_off returned
\* whatever strtoimax returns.
StatusOffsetUnchecked(G, P) ==
  IF ~G.ok
  THEN [W |-> G.W, ret |-> -1]
  ELSE IF ~P.any
  THEN [W |-> [G.W EXCEPT !.errno = 0], ret |-> -1]
  ELSE [W |-> [G.W EXCEPT !.errno = IF P.range THEN ERANGE ELSE 0],
        ret |-> P.val]

\* get_status_off once the status string G has been parsed to P.  off_t is
\* as wide as intmax_t, so ckd_add never overflows on its own.
StatusOffset(G, P) ==
  IF ~G.ok
  THEN [W |-> G.W, ret |-> -1]
  ELSE IF P.range
  THEN [W |-> [G.W EXCEPT !.errno = ERANGE], ret |-> -1]
  ELSE IF ~P.any
  THEN [W |-> [G.W EXCEPT !.errno = 0], ret |-> -1]
  ELSE [W |-> [G.W EXCEPT !.errno = 0], ret |-> P.val]

OffsetOf(G) == StatusOffset(G, strtoimax(G.str))

get_status_off(W, handle) == OffsetOf(get_status_string(W, handle))

----------------------------------------------------------------------------
(* The peer *)

\* A reply of the peer: SP leading spaces, the status letter ST, the number
\* N in decimal, a newline, and then the message line (E and F) or the
\* payload DATA (A).  "none": the peer sends nothing and closes its end.
\* "": a status line without letter and number.  CUT: how many bytes at the
\* end of all this the peer does not send before it closes its end.
Reply(st, n, sp, msg, data) ==
  [st |-> st, n |-> n, sp |-> sp, msg |-> msg, data |-> data, cut |-> 0]

NoReply == Reply("none", 0, 0, <<>>, <<>>)

RECURSIVE Spaces(_)
Spaces(k) == IF k = 0 THEN <<>> ELSE <<SP>> \o Spaces(k - 1)

Whole(r) ==
  Spaces(r.sp) \o (IF r.st = "" THEN <<>> ELSE <<r.st>> \o Dec(r.n))
  \o <<NL>> \o (IF r.st \in {"E", "F"} THEN r.msg \o <<NL>> ELSE r.data)

Encode(r) ==
  IF r.st = "none" THEN <<>>
  ELSE SubSeq(Whole(r), 1, Len(Whole(r)) - r.cut)

\* The text of the message line of an E or F reply.
Msg == <<"n", "o">>

\* The bytes of a payload, all different.
Bytes == <<"a", "b", "c", "d", "e", "f">>

Payload(k) == SubSeq(Bytes, 1, k)

\* The errno values the peer reports (0: the client maps it to EIO).
ErrNums == {PeerErrno, 0}

ErrorReplies ==
  {Reply(st, n, 0, Msg, <<>>) : st \in {"E", "F"}, n \in ErrNums}

\* A success reply with a negative count.
NegativeReply == Reply("A", -2, 0, <<>>, <<>>)

\* Replies that the peer does not finish: a status line without its
\* newline, and an E reply without its message line.
TruncatedReplies ==
  {[Reply("A", 0, 0, <<>>, <<>>) EXCEPT !.cut = 1],
   [Reply("E", PeerErrno, 0, Msg, <<>>) EXCEPT !.cut = Len(Msg) + 1]}

\* A status letter that is none of A, E, F; a negative count; a reply cut
\* short; and silence.
BadReplies ==
  {Reply("X", 0, 0, <<>>, <<>>), NegativeReply, NoReply}
  \cup TruncatedReplies

\* Replies to a command that is answered by a count.
CountReplies ==
  {Reply("A", n, 0, <<>>, <<>>) : n \in 0..MaxLen} \cup ErrorReplies
  \cup BadReplies

\* Replies to R<length>: a count up to one more than was asked for, followed
\* by that many bytes of payload or one fewer.
ReadReplies(length) ==
  UNION {{Reply("A", k, 0, <<>>, Payload(j)) : j \in {k, k - 1} \cap Nat} :
           k \in 0..(length + 1)}
  \cup ErrorReplies \cup BadReplies

\* Replies to L: an offset, among them the largest and the smallest one
\* and the first one past either.
SeekReplies ==
  {Reply("A", n, 0, <<>>, <<>>) :
     n \in {-OffMax - 2, -OffMax - 1, -3, 0, 10, OffMax, OffMax + 1}}
  \cup ErrorReplies \cup BadReplies

\* The peer's bytes reach the parent's read side of HANDLE.
Deliver(W, handle, r) ==
  IF read_side(W, handle) \in FdNums /\ W.fds[read_side(W, handle)] = "r"
  THEN [W EXCEPT !.inq[read_side(W, handle)] = @ \o Encode(r)]
  ELSE W

\* Whether a command written to HANDLE can go out at all.
Writable(W, handle) ==
  write_side(W, handle) \in FdNums /\ W.fds[write_side(W, handle)] = "w"

\* The read side of HANDLE is open and no bytes of an earlier reply wait
\* unread on it: what the peer sends next is what the call reads first.
InSync(W, handle) ==
  /\ read_side(W, handle) \in FdNums
  /\ W.fds[read_side(W, handle)] = "r"
  /\ W.inq[read_side(W, handle)] = <<>>

----------------------------------------------------------------------------
(* The record of a call *)

\* remote_user, remote_host and remote_file as rmt_open hands them to execl
\* and to the O command; <<>> for a null pointer.
NoName == [user |-> <<>>, host |-> <<>>, file |-> <<>>]

NoCall ==
  [op |-> "none", h |-> 0, len |-> 0, off |-> 0, whence |-> "SEEK_SET",
   request |-> "none", reply |-> NoReply, sync |-> TRUE, sent |-> <<>>,
   ret |-> 0, buf |-> <<>>, name |-> <<>>, bias |-> 0, chunk |-> 1,
   keeps |-> FALSE, parsed |-> NoName, stage |-> "none"]

\* The children whose standard input the parent can still write to: the
\* write end of their pipe is open in the parent.  fork copies these
\* descriptors into a new child, pipe having made them without
\* close-on-exec.
Fed == {c \in children : c.wr # -1}

\* The child that a call of rmt_open has forked and left running: it reads
\* the pipe whose write end is to_remote[handle], it has closed the four
\* ends of its own two pipes, and it HOLDS the write ends of the pipes of
\* the older children that were open in the parent at the fork, when the
\* program that it executes keeps the descriptors it inherits.
Kid(R, call) ==
  [id |-> CHOOSE k \in 0..Cardinality(children) :
                                  \A c \in children : c.id # k,
   slot |-> R.handle, wr |-> write_side(R.W, R.handle),
   holds |-> IF call.keeps THEN {c.id : c \in Fed} ELSE {}]

Forked(R, call) ==
  IF call.op = "open" /\ R.stage \in {"ok", "crash"}
  THEN {Kid(R, call)} ELSE {}

\* The children once the parent's descriptors are as in W: a write end that
\* the parent has closed is no longer the parent's.
Released(W, kids) ==
  {IF c.wr # -1 /\ W.fds[c.wr] # "w" THEN [c EXCEPT !.wr = -1] ELSE c :
     c \in kids}

\* The children of KIDS that do not see end of file on their standard
\* input: the parent or one of the children in ALIVE has the write end open.
RECURSIVE Living(_, _)
Living(kids, alive) ==
  IF \E c \in kids \ alive : \E d \in alive : c.id \in d.holds
  THEN Living(kids, alive \cup {c \in kids : \E d \in alive :
                                                  c.id \in d.holds})
  ELSE alive

\* A child exits when it reads end of file.
Reaped(kids) == Living(kids, {c \in kids : c.wr # -1})

\* The process runs: no call has ended in a fault.
Running == last.stage # "crash"

\* The state after a call that ended as R says.
Commit(R, call, hold) ==
  /\ held' = hold
  /\ children' = Reaped(Released(R.W, children \cup Forked(R, call)))
  /\ from_remote' = R.W.from_remote
  /\ to_remote' = R.W.to_remote
  /\ fds' = R.W.fds
  /\ inq' = R.W.inq
  /\ errno' = R.W.errno
  /\ last' = [call EXCEPT !.ret = R.ret, !.sent = R.sent, !.buf = R.buf,
                          !.stage = R.stage, !.h = R.handle,
                          !.parsed = R.parsed]

\* How a call ends.
Return(W, handle, ret, buf, sent, stage) ==
  [W |-> W, handle |-> handle, ret |-> ret, buf |-> buf, sent |-> sent,
   stage |-> stage, parsed |-> NoName]

----------------------------------------------------------------------------
(* rmt_open *)

\* FindUnused without the test of the two sides: the scan stops where it
\* starts.
FindUnusedFirst(W, remote_pipe_number) == remote_pipe_number

\* The scan for an unused pair of descriptors: the slot found, or MAXUNIT.
RECURSIVE FindUnused(_, _)
FindUnused(W, remote_pipe_number) ==
  IF remote_pipe_number < MAXUNIT
     /\ ~(read_side(W, remote_pipe_number) < 0
          /\ write_side(W, remote_pipe_number) < 0)
  THEN FindUnused(W, remote_pipe_number + 1)
  ELSE remote_pipe_number

\* The loop over file_name_copy.  USER, HOST and FILE are positions in the
\* copy (0: a null pointer); a separator that splits is overwritten by NUL.
RECURSIVE ScanName(_, _, _, _, _)
ScanName(copy, cursor, user, host, file) ==
  IF cursor > Len(copy)
  THEN [nl |-> FALSE, copy |-> copy, user |-> user, host |-> host,
        file |-> file]
  ELSE IF copy[cursor] = NL
  THEN [nl |-> TRUE, copy |-> copy, user |-> user, host |-> host,
        file |-> file]
  ELSE IF copy[cursor] = "@" /\ user = 0
  THEN ScanName([copy EXCEPT ![cursor] = NUL], cursor + 1, host, cursor + 1,
                file)
  ELSE IF copy[cursor] = ":" /\ file = 0
  THEN ScanName([copy EXCEPT ![cursor] = NUL], cursor + 1, user, host,
                cursor + 1)
  ELSE ScanName(copy, cursor + 1, user, host, file)

\* The C string that starts at position P of COPY.
RECURSIVE CStr(_, _)
CStr(copy, p) ==
  IF p > Len(copy) \/ copy[p] = NUL THEN <<>>
  ELSE <<copy[p]>> \o CStr(copy, p + 1)

Bit(x, mask) == (x \div mask) % 2 = 1

encode_oflags(oflags) ==
  Dec(oflags) \o <<SP>>
  \o (CASE oflags % (O_ACCMODE + 1) = O_RDONLY -> <<"O_RDONLY">>
        [] oflags % (O_ACCMODE + 1) = O_RDWR -> <<"O_RDWR">>
        [] oflags % (O_ACCMODE + 1) = O_WRONLY -> <<"O_WRONLY">>)
  \o (IF Bit(oflags, O_APPEND) THEN <<"|O_APPEND">> ELSE <<>>)
  \o (IF Bit(oflags, O_CREAT) THEN <<"|O_CREAT">> ELSE <<>>)
  \o (IF Bit(oflags, O_EXCL) THEN <<"|O_EXCL">> ELSE <<>>)
  \o (IF Bit(oflags, O_NONBLOCK) THEN <<"|O_NONBLOCK">> ELSE <<>>)
  \o (IF Bit(oflags, O_TRUNC) THEN <<"|O_TRUNC">> ELSE <<>>)

FreeFds(W) == {fd \in FdNums : W.fds[fd] = "closed"}

LowestFree(W) == CHOOSE fd \in FreeFds(W) : \A g \in FreeFds(W) : fd <= g

\* pipe (p) taking RD and then the next free descriptor.
PipeEnds(W, rd, wr) ==
  [ok |-> TRUE, W |-> [W EXCEPT !.fds[wr] = "w"], rd |-> rd, wr |-> wr]

PipeFrom(W, rd) ==
  PipeEnds([W EXCEPT !.fds[rd] = "r"], rd,
           LowestFree([W EXCEPT !.fds[rd] = "r"]))

\* pipe (p): the two lowest free descriptors, p[PREAD] then p[PWRITE].
\* It fails, leaving p alone, when the environment says so (FAILS) or when
\* fewer than two descriptors are free.
pipe(W, fails) ==
  IF fails \/ Cardinality(FreeFds(W)) < 2
  THEN [ok |-> FALSE, W |-> [W EXCEPT !.errno = EMFILE], rd |-> -1, wr |-> -1]
  ELSE PipeFrom(W, LowestFree(W))

\* rmt_open from the reply to the O command on.
OpenStatus(n, bias, sent, S) ==
  IF S.ret = -1
  THEN Return(rmt_shutdown(S.W, n, S.W.errno), n, -1, <<>>, sent, "status")
  ELSE Return(S.W, n, n + bias, <<>>, sent, "ok")

\* rmt_open once the O command has been given to do_command.
OpenCommand(n, bias, r, C) ==
  IF C.rc = -1
  THEN Return(rmt_shutdown(C.W, n, C.W.errno), n, -1, <<>>, C.sent,
              "command")
  ELSE OpenStatus(n, bias, C.sent, get_status(Deliver(C.W, n, r), n))

\* rmt_open in the parent, after fork: W is the state once the parent has
\* closed from_remote[PWRITE] and to_remote[PREAD].  The file name had no
\* ':' when N.file is the null pointer: 'assume (remote_file)' was false and
\* strlen reads through the null pointer, which is undefined.  NULL is what
\* the build makes of it: "crash", the process is killed by the fault (the
\* state is then the one at the fault, and nothing follows); or "empty",
\* address 0 is readable and holds a zero byte, so that remote_file reads as
\* the empty string.
OpenParent(W, n, N, oflags, bias, wok, r, null) ==
  IF N.file = 0 /\ null = "crash"
  THEN Return(W, n, 0, <<>>, <<>>, "crash")
  ELSE OpenCommand(n, bias, r,
                   do_command(W, n,
                              <<"O">>
                              \o (IF N.file = 0 THEN <<>>
                                  ELSE CStr(N.copy, N.file))
                              \o <<NL>> \o encode_oflags(oflags) \o <<NL>>,
                              wok))

\* The strings that the pointers into the copy stand for once the scan has
\* ended as N: remote_user is made null when it points at an empty string.
Pointers(N) ==
  [user |-> IF N.user = 0 THEN <<>> ELSE CStr(N.copy, N.user),
   host |-> CStr(N.copy, N.host),
   file |-> IF N.file = 0 THEN <<>> ELSE CStr(N.copy, N.file)]

\* The call R of rmt_open has got to fork: the child has called execl with
\* remote_host and remote_user.
Executed(R, N) == [R EXCEPT !.parsed = Pointers(N)]

\* rmt_open from fork on: both pipes are P1 (to_remote) and P2
\* (from_remote).  The parent closes from_remote[PWRITE] and
\* to_remote[PREAD].
OpenFork(W, n, N, oflags, bias, fail, wok, r, null, P1, P2) ==
  IF fail = "fork"
  THEN Return([CloseFd(CloseFd(CloseFd(CloseFd(W, P2.rd), P2.wr), P1.rd),
                       P1.wr) EXCEPT !.errno = ForkErrno],
              n, -1, <<>>, <<>>, "fork")
  ELSE Executed(OpenParent(CloseFd(CloseFd(W, P2.wr), P1.rd), n, N, oflags,
                           bias, wok, r, null), N)

\* rmt_open from the second pipe on.
OpenPipe2(n, N, oflags, bias, fail, wok, r, null, P1, P2) ==
  IF ~P2.ok
  THEN Return([CloseFd(CloseFd(P2.W, P1.rd), P1.wr)
                 EXCEPT !.errno = P2.W.errno], n, -1, <<>>, <<>>, "pipe2")
  ELSE OpenFork([P2.W EXCEPT !.from_remote[n] = P2.rd], n, N, oflags, bias,
                fail, wok, r, null, P1, P2)

\* rmt_open from the first pipe on.
OpenPipe1(n, N, oflags, bias, fail, wok, r, null, P1) ==
  IF ~P1.ok
  THEN Return(P1.W, n, -1, <<>>, <<>>, "pipe1")
  ELSE OpenPipe2(n, N, oflags, bias, fail, wok, r, null, P1,
                 pipe([P1.W EXCEPT !.to_remote[n] = P1.wr], fail = "pipe2"))

\* OpenName without the rejection of a newline.
OpenNameAny(W, n, N, oflags, bias, shell, fail, wok, r, null) ==
  IF ~shell
  THEN Return([W EXCEPT !.errno = EIO], n, -1, <<>>, <<>>, "noshell")
  ELSE OpenPipe1(n, N, oflags, bias, fail, wok, r, null,
                 pipe(W, fail = "pipe1"))

\* rmt_open once the file name has been pulled apart into N.
\* SHELL: remote_shell is not null (the build has no REMOTE_SHELL default).
OpenName(W, n, N, oflags, bias, shell, fail, wok, r, null) ==
  IF N.nl
  THEN Return([W EXCEPT !.errno = ENOENT], n, -1, <<>>, <<>>, "newline")
  ELSE IF ~shell
  THEN Return([W EXCEPT !.errno = EIO], n, -1, <<>>, <<>>, "noshell")
  ELSE OpenPipe1(n, N, oflags, bias, fail, wok, r, null,
                 pipe(W, fail = "pipe1"))

\* OpenSlot without the test for a full table: the last slot is taken.
OpenSlotLast(W, n, file_name, oflags, bias, shell, fail, wok, r, null) ==
  OpenName(W, IF n = MAXUNIT THEN MAXUNIT - 1 ELSE n,
           ScanName(file_name, 1, 0, 1, 0), oflags, bias, shell, fail, wok, r,
           null)

\* rmt_open once the scan has ended at slot N.
OpenSlot(W, n, file_name, oflags, bias, shell, fail, wok, r, null) ==
  IF n = MAXUNIT
  THEN Return([W EXCEPT !.errno = EMFILE], n, -1, <<>>, <<>>, "full")
  ELSE OpenName(W, n, ScanName(file_name, 1, 0, 1, 0), oflags, bias, shell,
                fail, wok, r, null)

\* FAIL: which of pipe, pipe and fork the environment lets fail, if any.
rmt_open(W, file_name, oflags, bias, shell, fail, wok, r, null) ==
  OpenSlot(W, FindUnused(W, 0), file_name, oflags, bias, shell, fail, wok, r,
           null)

\* The arguments of a call of rmt_open: FILE_NAME is [USER@]HOST:FILE, SHELL
\* says that remote_shell is not null.
OpenArgs ==
  {[file_name |-> <<"h", ":", "f">>, oflags |-> O_RDONLY, bias |-> 0,
    shell |-> TRUE],
   [file_name |-> <<"u", "@", "h", ":", "f">>, oflags |-> O_RDWR + O_CREAT,
    bias |-> 128, shell |-> TRUE],
   [file_name |-> <<"h", ":", "f", NL>>, oflags |-> O_RDONLY, bias |-> 0,
    shell |-> TRUE],
   [file_name |-> <<"h", ":", "f">>, oflags |-> O_RDONLY, bias |-> 0,
    shell |-> FALSE],
   [file_name |-> <<"h">>, oflags |-> O_RDONLY, bias |-> 0, shell |-> TRUE],
   [file_name |-> <<NL, "h", ":", "f">>, oflags |-> O_RDONLY, bias |-> 0,
    shell |-> TRUE],
   [file_name |-> <<"h", NL>>, oflags |-> O_RDONLY, bias |-> 0,
    shell |-> TRUE]}

\* The slots that are in use although the caller holds no handle for them.
Leaked == {h \in Handles \ held : from_remote[h] >= 0 \/ to_remote[h] >= 0}

\* R is a call that used each of its inputs: one that it does not get to
\* use is left at its default, so that one call is not counted twice.
OpenUsed(R, fail, wok, null) ==
  /\ fail # "none" => R.stage = fail
  /\ wok <=> R.stage \in {"status", "ok"}
  /\ null = "crash" => R.stage = "crash"

\* KEEPS: the remote shell that the child executes keeps the descriptors it
\* has inherited (it does not close those above standard error).
Opened(R, a, r, fail, wok, keeps, null) ==
  /\ OpenUsed(R, fail, wok, null)
  /\ keeps => R.stage \in {"ok", "crash"}
  /\ Commit(R, [NoCall EXCEPT !.op = "open", !.name = a.file_name,
                  !.bias = a.bias, !.len = a.oflags, !.reply = r,
                  !.keeps = keeps],
            IF R.stage = "ok" THEN held \cup {R.handle} ELSE held)

RmtOpen(P) ==
  /\ Running
  /\ Cardinality(held) < P.sessions
  /\ Cardinality(children \ Fed) < MaxOrphans
  /\ \E a \in P.open :
     \E fail \in (IF Cardinality(Leaked) < P.leaks
                  THEN {"none", "pipe1", "pipe2", "fork"} ELSE {"none"}) :
     \E wok \in BOOLEAN :
     \E r \in (IF wok THEN P.count ELSE {NoReply}) :
     \E keeps \in (IF Fed = {} THEN {FALSE} ELSE BOOLEAN) :
     \E null \in {"empty", "crash"} :
       Opened(rmt_open(World, a.file_name, a.oflags, a.bias, a.shell, fail,
                       wok, r, null), a, r, fail, wok, keeps, null)

----------------------------------------------------------------------------
(* rmt_close *)

\* CloseStatus without the call of _rmt_shutdown.
CloseStatusOpen(handle, sent, S) ==
  Return(S.W, handle, S.ret, <<>>, sent, "status")

\* rmt_close from the reply to the C command on.
CloseStatus(handle, sent, S) ==
  Return(rmt_shutdown(S.W, handle, S.W.errno), handle, S.ret, <<>>, sent,
         "status")

\* rmt_close once the C command has been given to do_command.
CloseCommand(handle, r, C) ==
  IF C.rc = -1
  THEN Return(C.W, handle, -1, <<>>, C.sent, "command")
  ELSE CloseStatus(handle, C.sent,
                   get_status(Deliver(C.W, handle, r), handle))

rmt_close(W, handle, wok, r) ==
  CloseCommand(handle, r, do_command(W, handle, <<"C", NL>>, wok))

RmtClose(P) ==
  /\ Running
  /\ \E handle \in held :
     \E wok \in (IF Writable(World, handle) THEN BOOLEAN ELSE {FALSE}) :
     \E r \in (IF wok THEN P.count ELSE {NoReply}) :
       Commit(rmt_close(World, handle, wok, r),
              [NoCall EXCEPT !.op = "close", !.reply = r,
                 !.sync = InSync(World, handle)],
              held \ {handle})

----------------------------------------------------------------------------
(* rmt_read *)

\* The caller's buffer before the call.
Fill(length) == [i \in 1..length |-> "?"]

\* StoreAt with every chunk stored at BUFFER, as if the loop of rmt_read
\* did not advance by COUNTER.
StoreAtStart(buffer, counter, bytes) ==
  [i \in 1..Len(buffer) |-> IF i <= Len(bytes) THEN bytes[i] ELSE buffer[i]]

\* BYTES stored at BUFFER + COUNTER.
StoreAt(buffer, counter, bytes) ==
  [i \in 1..Len(buffer) |->
     IF counter < i /\ i <= counter + Len(bytes)
     THEN bytes[i - counter] ELSE buffer[i]]

\* safe_read (fd, p, count), where S are the bytes that wait on fd: at most
\* CHUNK bytes come back from one call.
safe_read(s, count, chunk) == Min(Min(count, chunk), Len(s))

\* The loop that reads STATUS bytes of payload into BUFFER; RLEN is what
\* the next safe_read returns.
RECURSIVE PayloadLoop(_, _, _, _, _, _)
PayloadLoop(s, buffer, counter, status, chunk, rlen) ==
  IF ~(counter < status)
  THEN [ok |-> TRUE, buf |-> buffer, rest |-> s]
  ELSE IF rlen <= 0
  THEN [ok |-> FALSE, buf |-> buffer, rest |-> s]
  ELSE PayloadLoop(SubSeq(s, rlen + 1, Len(s)),
                   StoreAt(buffer, counter, SubSeq(s, 1, rlen)),
                   counter + rlen, status, chunk,
                   safe_read(SubSeq(s, rlen + 1, Len(s)),
                             status - counter - rlen, chunk))

ReadPayload(s, buffer, status, chunk) ==
  PayloadLoop(s, buffer, 0, status, chunk, safe_read(s, status, chunk))

\* rmt_read after the loop D over the payload.
ReadData(W, handle, status, sent, D) ==
  IF ~D.ok
  THEN Return(rmt_shutdown(Consume(W, read_side(W, handle), D.rest), handle,
                           EIO), handle, -1, D.buf, sent, "payload")
  ELSE Return(Consume(W, read_side(W, handle), D.rest), handle, status,
              D.buf, sent, "ok")

\* ReadStatus without the upper bound on the count.
ReadStatusUnbounded(handle, buffer, length, chunk, sent, S) ==
  IF ~(0 <= S.ret)
  THEN Return(rmt_shutdown(S.W, handle, EIO), handle, -1, buffer, sent,
              "status")
  ELSE ReadData(S.W, handle, S.ret, sent,
                ReadPayload(Avail(S.W, read_side(S.W, handle)), buffer,
                            S.ret, chunk))

\* rmt_read from the reply to the R command on.
ReadStatus(handle, buffer, length, chunk, sent, S) ==
  IF ~(0 <= S.ret /\ S.ret <= length)
  THEN Return(rmt_shutdown(S.W, handle, EIO), handle, -1, buffer, sent,
              "status")
  ELSE ReadData(S.W, handle, S.ret, sent,
                ReadPayload(Avail(S.W, read_side(S.W, handle)), buffer,
                            S.ret, chunk))

\* rmt_read once the R command has been given to do_command.
ReadCommand(handle, buffer, length, r, chunk, C) ==
  IF C.rc < 0
  THEN Return(C.W, handle, C.rc, buffer, C.sent, "command")
  ELSE ReadStatus(handle, buffer, length, chunk, C.sent,
                  get_status(Deliver(C.W, handle, r), handle))

rmt_read(W, handle, buffer, length, wok, r, chunk) ==
  ReadCommand(handle, buffer, length, r, chunk,
              do_command(W, handle, <<"R">> \o Dec(length) \o <<NL>>, wok))

RmtRead(P) ==
  /\ Running
  /\ \E handle \in held, length \in P.lens :
     \E wok \in (IF Writable(World, handle) THEN BOOLEAN ELSE {FALSE}) :
     \E r \in (IF wok THEN ReadReplies(length) ELSE {NoReply}) :
     \E chunk \in (IF r.st = "A" /\ Len(r.data) > 1 THEN P.chunks ELSE {1}) :
       Commit(rmt_read(World, handle, Fill(length), length, wok, r, chunk),
              [NoCall EXCEPT !.op = "read", !.len = length, !.reply = r,
                 !.chunk = chunk, !.sync = InSync(World, handle)],
              held)

----------------------------------------------------------------------------
(* rmt_write *)

\* WriteStatus with every count taken for LENGTH, as if rmt_write did not
\* compare the acknowledged count.
WriteStatusFull(handle, length, sent, S) ==
  IF S.ret < 0
  THEN Return(S.W, handle, 0, <<>>, sent, "status")
  ELSE Return(S.W, handle, length, <<>>, sent, "ok")

\* WriteStatus with a short count returned from an open session, as if
\* rmt_write returned r without falling through to _rmt_shutdown.
WriteStatusIdle(handle, length, sent, S) ==
  IF S.ret < 0
  THEN Return(S.W, handle, 0, <<>>, sent, "status")
  ELSE IF S.ret = length
  THEN Return(S.W, handle, length, <<>>, sent, "ok")
  ELSE Return(S.W, handle, S.ret, <<>>, sent, "short")

\* rmt_write from the reply to the payload on.
WriteStatus(handle, length, sent, S) ==
  IF S.ret < 0
  THEN Return(S.W, handle, 0, <<>>, sent, "status")
  ELSE IF S.ret = length
  THEN Return(S.W, handle, length, <<>>, sent, "ok")
  ELSE Return(rmt_shutdown(S.W, handle, EIO), handle, S.ret, <<>>, sent,
              "short")

\* rmt_write once WRITTEN bytes of the payload have gone out.
WritePayload(W, handle, buffer, length, r, sent, written) ==
  IF written = length
  THEN WriteStatus(handle, length, sent \o buffer,
                   get_status(Deliver(W, handle, r), handle))
  ELSE Return(rmt_shutdown(W, handle, EIO), handle, written, <<>>,
              sent \o SubSeq(buffer, 1, written), "payload")

\* rmt_write once the W command has been given to do_command.
\* PCAP: how many bytes of the payload the pipe takes.
WriteCommand(handle, buffer, length, pcap, r, C) ==
  IF C.rc < 0
  THEN Return(C.W, handle, 0, <<>>, C.sent, "command")
  ELSE WritePayload(C.W, handle, buffer, length, r, C.sent,
                    full_write(C.W, write_side(C.W, handle), buffer, pcap))

rmt_write(W, handle, buffer, length, wok, pcap, r) ==
  WriteCommand(handle, buffer, length, pcap, r,
               do_command(W, handle, <<"W">> \o Dec(length) \o <<NL>>, wok))

RmtWrite(P) ==
  /\ Running
  /\ \E handle \in held, length \in P.lens :
     \E wok \in (IF Writable(World, handle) THEN BOOLEAN ELSE {FALSE}) :
     \E pcap \in (IF wok THEN 0..length ELSE {0}) :
     \E r \in (IF wok /\ pcap = length THEN P.count ELSE {NoReply}) :
       Commit(rmt_write(World, handle, Payload(length), length, wok, pcap, r),
              [NoCall EXCEPT !.op = "write", !.len = length, !.reply = r,
                 !.sync = InSync(World, handle)],
              held)

----------------------------------------------------------------------------
(* rmt_lseek *)

\* The switch on whence.
Whence(whence) ==
  CASE whence = "SEEK_SET" -> 0
    [] whence = "SEEK_CUR" -> 1
    [] whence = "SEEK_END" -> 2

\* rmt_lseek once the L command has been given to do_command.
SeekCommand(handle, r, C) ==
  IF C.rc = -1
  THEN Return(C.W, handle, -1, <<>>, C.sent, "command")
  ELSE Return(get_status_off(Deliver(C.W, handle, r), handle).W, handle,
              get_status_off(Deliver(C.W, handle, r), handle).ret, <<>>,
              C.sent, "status")

rmt_lseek(W, handle, offset, whence, wok, r) ==
  SeekCommand(handle, r,
              do_command(W, handle,
                         <<"L">> \o Dec(Whence(whence)) \o <<NL>>
                         \o Dec(offset) \o <<NL>>, wok))

\* The (offset, whence) pairs of the calls of rmt_lseek.
SeekArgs ==
  {[offset |-> 0, whence |-> "SEEK_SET"],
   [offset |-> 12, whence |-> "SEEK_CUR"],
   [offset |-> -3, whence |-> "SEEK_END"]}

RmtLseek(P) ==
  /\ Running
  /\ \E handle \in held, a \in P.seeks :
     \E wok \in (IF Writable(World, handle) THEN BOOLEAN ELSE {FALSE}) :
     \E r \in (IF wok THEN P.offs ELSE {NoReply}) :
       Commit(rmt_lseek(World, handle, a.offset, a.whence, wok, r),
              [NoCall EXCEPT !.op = "lseek", !.off = a.offset,
                 !.whence = a.whence, !.reply = r,
                 !.sync = InSync(World, handle)],
              held)

----------------------------------------------------------------------------
(* rmt_ioctl *)

MtgetSize == 2 * MtgetWords

\* Every adjacent pair of bytes swapped.
SwapPairs(buf) ==
  [i \in 1..Len(buf) |-> IF i % 2 = 1 THEN buf[i + 1] ELSE buf[i - 1]]

\* MTIO_CHECK_FIELD < 256: the field is the first word of the structure,
\* least significant byte first, so it is below 256 when its other bytes
\* are zero.
CheckFieldSmall(buf) == buf[2] = NUL

\* MTIOCGET after the loop D over the structure.
GetData(W, handle, sent, D) ==
  IF ~D.ok
  THEN Return(rmt_shutdown(Consume(W, read_side(W, handle), D.rest), handle,
                           EIO), handle, -1, D.buf, sent, "payload")
  ELSE Return(Consume(W, read_side(W, handle), D.rest), handle, 0,
              IF CheckFieldSmall(D.buf) THEN D.buf ELSE SwapPairs(D.buf),
              sent, "ok")

\* MTIOCGET from the reply to the S command on.
GetStatus(handle, chunk, sent, S) ==
  IF S.ret = -1
  THEN Return(S.W, handle, -1, Fill(MtgetSize), sent, "status")
  ELSE IF S.ret # MtgetSize
  THEN Return(rmt_shutdown(S.W, handle, EIO), handle, -1, Fill(MtgetSize),
              sent, "size")
  ELSE GetData(S.W, handle, sent,
               ReadPayload(Avail(S.W, read_side(S.W, handle)),
                           Fill(MtgetSize), S.ret, chunk))

\* MTIOCGET once the S command has been given to do_command.
GetCommand(handle, r, chunk, C) ==
  IF C.rc = -1
  THEN Return(C.W, handle, -1, Fill(MtgetSize), C.sent, "command")
  ELSE GetStatus(handle, chunk, C.sent,
                 get_status(Deliver(C.W, handle, r), handle))

\* MTIOCTOP from the reply to the I command on.
TopStatus(handle, sent, S) == Return(S.W, handle, S.ret, <<>>, sent, "status")

\* MTIOCTOP once the I command has been given to do_command.
TopCommand(handle, r, C) ==
  IF C.rc = -1
  THEN Return(C.W, handle, -1, <<>>, C.sent, "command")
  ELSE TopStatus(handle, C.sent, get_status(Deliver(C.W, handle, r), handle))

\* rmt_ioctl without the default case: every request is sent as a tape
\* operation.
IoctlAsTapeOp(W, handle, operation, argument, wok, r, chunk) ==
  TopCommand(handle, r,
             do_command(W, handle,
                        <<"I">> \o Dec(argument.mt_op) \o <<NL>>
                        \o Dec(argument.mt_count) \o <<NL>>, wok))

\* ARGUMENT: mt_op and mt_count for MTIOCTOP.
rmt_ioctl(W, handle, operation, argument, wok, r, chunk) ==
  CASE operation = "MTIOCTOP" ->
         TopCommand(handle, r,
                    do_command(W, handle,
                               <<"I">> \o Dec(argument.mt_op) \o <<NL>>
                               \o Dec(argument.mt_count) \o <<NL>>, wok))
    [] operation = "MTIOCGET" ->
         GetCommand(handle, r, chunk, do_command(W, handle, <<"S">>, wok))
    [] OTHER ->
         Return([W EXCEPT !.errno = EOPNOTSUPP], handle, -1, <<>>, <<>>,
                "unsupported")

\* A structure of MtgetSize bytes whose first word is below 256 (LOW) or
\* not.
MtgetData(low) ==
  [i \in 1..MtgetSize |-> IF (i = 2) = low THEN NUL ELSE Bytes[i]]

\* Replies to S: the size of the structure and the structure, whole or cut
\* short; or another count.
StatusReplies ==
  {Reply("A", MtgetSize, 0, <<>>, MtgetData(low)) : low \in BOOLEAN}
  \cup {Reply("A", MtgetSize, 0, <<>>, SubSeq(MtgetData(TRUE), 1, 1)),
        Reply("A", MtgetSize - 1, 0, <<>>, <<>>)}
  \cup ErrorReplies \cup BadReplies

IoctlArgs == [mt_op |-> 1, mt_count |-> 3]

RmtIoctl(P) ==
  /\ Running
  /\ \E handle \in held, operation \in P.requests :
     \E wok \in (IF Writable(World, handle) /\ operation # "MTIOCPOS"
                 THEN BOOLEAN ELSE {FALSE}) :
     \E r \in (IF ~wok THEN {NoReply}
               ELSE IF operation = "MTIOCTOP" THEN P.count ELSE P.status) :
     \E chunk \in (IF r.st = "A" /\ Len(r.data) > 1 THEN P.chunks ELSE {1}) :
       Commit(rmt_ioctl(World, handle, operation, IoctlArgs, wok, r, chunk),
              [NoCall EXCEPT !.op = "ioctl", !.request = operation,
                 !.reply = r, !.chunk = chunk, !.sync = InSync(World, handle)],
              held)

----------------------------------------------------------------------------

\* The inputs the calls of Spec draw from.
Rich ==
  [sessions |-> MaxHeld, leaks |-> MaxLeaks, open |-> OpenArgs,
   count |-> CountReplies, lens |-> 0..MaxLen, chunks |-> 1..MaxLen,
   seeks |-> SeekArgs, offs |-> SeekReplies, status |-> StatusReplies,
   requests |-> {"MTIOCTOP", "MTIOCGET", "MTIOCPOS"}]

\* The inputs the calls of TableSpec draw from: a caller that keeps up to
\* MAXUNIT archives open and tries to open one more, an environment in which
\* pipe and fork succeed, and a peer that answers A0 or E.
Table ==
  [sessions |-> MAXUNIT + 1, leaks |-> 0, open |-> OpenArgs,
   count |-> {Reply("A", 0, 0, <<>>, <<>>),
              Reply("E", PeerErrno, 0, Msg, <<>>)},
   lens |-> {0}, chunks |-> {1}, seeks |-> SeekArgs,
   offs |-> {Reply("A", 0, 0, <<>>, <<>>)},
   status |-> {Reply("A", 0, 0, <<>>, <<>>)},
   requests |-> {"MTIOCPOS"}]

\* How many bytes longer than command_buffer the longest status line of
\* LineSpec is.
MaxOver == 2

\* The numbers of spaces that the peer of LineSpec puts before the status
\* letter: none or a few, and those that bring the line to the size of
\* command_buffer, just below it and just above it.
LineSpaces ==
  0..2 \cup (COMMAND_BUFFER_SIZE - 4)..(COMMAND_BUFFER_SIZE + MaxOver - 1)

\* The status lines of LineSpec: the three status letters, letters that are
\* none of them, and a line of spaces only.
LineReplies ==
  {Reply(st, n, sp, Msg, <<>>) :
     st \in {"A", "E", "F", "X", "a"}, n \in {0, PeerErrno}, sp \in LineSpaces}
  \cup {Reply("", 0, sp, <<>>, <<>>) : sp \in LineSpaces}

\* The inputs the calls of LineSpec draw from: one session at a time, an
\* environment in which pipe and fork succeed, and a peer whose status lines
\* are LineReplies.
Lines ==
  [sessions |-> 1, leaks |-> 0,
   open |-> {a \in OpenArgs : a.file_name = <<"h", ":", "f">> /\ a.shell},
   count |-> LineReplies, lens |-> {0}, chunks |-> {1}, seeks |-> SeekArgs,
   offs |-> LineReplies, status |-> LineReplies, requests |-> {"MTIOCTOP"}]

\* The length of the longest file name that ParseSpec opens.
MaxName == 4

\* The file names of ParseSpec: every string of up to MaxName characters
\* over a letter and the two separators.
Names ==
  UNION {[1..k -> {"h", "@", ":"}] : k \in 1..MaxName}

\* The inputs the calls of ParseSpec draw from: one session at a time, every
\* file name of Names, an environment in which pipe and fork succeed, and a
\* peer that answers A0.
Parse ==
  [sessions |-> 1, leaks |-> 0,
   open |-> {[file_name |-> name, oflags |-> O_RDONLY, bias |-> 0,
              shell |-> TRUE] : name \in Names},
   count |-> {Reply("A", 0, 0, <<>>, <<>>)}, lens |-> {0}, chunks |-> {1},
   seeks |-> SeekArgs, offs |-> {Reply("A", 0, 0, <<>>, <<>>)},
   status |-> {Reply("A", 0, 0, <<>>, <<>>)}, requests |-> {"MTIOCPOS"}]

\* How many handles the caller of PairSpec holds at a time.
PairHeld == 2

\* The inputs the calls of PairSpec draw from: a caller that holds up to
\* PairHeld handles, shut down or not, an environment in which pipe and fork
\* fail, and a peer that answers A0 or F or keeps silent.
Pair ==
  [sessions |-> PairHeld, leaks |-> 1,
   open |-> {a \in OpenArgs : a.file_name = <<"h", ":", "f">> /\ a.shell},
   count |-> {Reply("A", 0, 0, <<>>, <<>>),
              Reply("F", PeerErrno, 0, Msg, <<>>), NoReply},
   lens |-> {0}, chunks |-> {1},
   seeks |-> {a \in SeekArgs : a.offset = 0},
   offs |-> {Reply("A", 0, 0, <<>>, <<>>), NoReply},
   status |-> {Reply("A", MtgetSize, 0, <<>>, MtgetData(TRUE)), NoReply},
   requests |-> {"MTIOCTOP", "MTIOCGET", "MTIOCPOS"}]

\* The state after the static initializers.
Init ==
  /\ from_remote = [h \in Handles |-> -1]
  /\ to_remote = [h \in Handles |-> -1]
  /\ fds = [fd \in FdNums |-> IF fd \in StdFds THEN "std" ELSE "closed"]
  /\ inq = [fd \in FdNums |-> <<>>]
  /\ errno = 0
  /\ held = {}
  /\ children = {}
  /\ last = NoCall

Next ==
  \/ RmtOpen(Rich)
  \/ RmtClose(Rich)
  \/ RmtRead(Rich)
  \/ RmtWrite(Rich)
  \/ RmtLseek(Rich)
  \/ RmtIoctl(Rich)

Spec == Init /\ [][Next]_vars

\* The handle table under up to MAXUNIT sessions: opens, closes and the
\* request that rmt_ioctl does not support.
TableNext ==
  \/ RmtOpen(Table)
  \/ RmtClose(Table)
  \/ RmtIoctl(Table)

TableSpec == Init /\ [][TableNext]_vars

\* The parser of status lines, get_status_string, on status lines of every
\* length around the size of its buffer: as called by rmt_open, rmt_close and
\* the tape operation of rmt_ioctl, which returns what get_status returns.
LineNext ==
  \/ RmtOpen(Lines)
  \/ RmtClose(Lines)
  \/ RmtIoctl(Lines)

LineSpec == Init /\ [][LineNext]_vars

\* Every operation, on up to PairHeld handles at a time.
PairNext ==
  \/ RmtOpen(Pair)
  \/ RmtClose(Pair)
  \/ RmtRead(Pair)
  \/ RmtWrite(Pair)
  \/ RmtLseek(Pair)
  \/ RmtIoctl(Pair)

PairSpec == Init /\ [][PairNext]_vars

\* The scan of the file name in rmt_open, on every name of Names.
ParseNext ==
  \/ RmtOpen(Parse)
  \/ RmtClose(Parse)

ParseSpec == Init /\ [][ParseNext]_vars

----------------------------------------------------------------------------
(* Properties *)

\* The operations that C1 calls data operations; of rmt_ioctl the two
\* supported requests.
DataCall ==
  \/ last.op \in {"read", "write", "lseek"}
  \/ last.op = "ioctl" /\ last.request \in {"MTIOCTOP", "MTIOCGET"}

\* The last call sent its whole request, and the peer's reply to it was
\* what the call read first: no bytes of an earlier reply were waiting.
Answered == last.reply.st # "none" /\ last.reply.cut = 0 /\ last.sync

\* Both endpoints of HANDLE are open descriptors of the process.
Alive(handle) ==
  /\ from_remote[handle] \in FdNums /\ fds[from_remote[handle]] = "r"
  /\ to_remote[handle] \in FdNums /\ fds[to_remote[handle]] = "w"

\* Both endpoints of HANDLE are the sentinel.
Dead(handle) == from_remote[handle] = -1 /\ to_remote[handle] = -1

\* The pipe ends that are open in the process, and those the caller's
\* handles stand for.
OpenPipeEnds == {fd \in FdNums : fds[fd] \in {"r", "w"}}

HeldEnds == {from_remote[h] : h \in held} \cup {to_remote[h] : h \in held}

\* What the last call returned says that it failed.
Failed == IF last.op = "write" THEN last.ret = 0 ELSE last.ret = -1

\* errno as decoded from the number N of an E or F reply.
Decoded(n) == IF n <= 0 THEN EIO ELSE n

\* C1: a data operation that receives E<n>, n > 0, reports failure with
\* errno = n and leaves both endpoints of the handle open.
C1_ErrorReplyRecoverable ==
  (DataCall /\ Answered /\ last.reply.st = "E" /\ last.reply.n > 0)
    => (Failed /\ errno = last.reply.n /\ Alive(last.h))

\* rmt_read has received E<n>, n > 0, and has shut the session down with
\* errno = EIO.
C1_ReadErrorShutsDown ==
  /\ last.op = "read" /\ Answered
  /\ last.reply.st = "E" /\ last.reply.n > 0 /\ last.reply.n # EIO
  /\ last.ret = -1 /\ errno = EIO /\ Dead(last.h)

\* C2: when a call that received an E reply returns with the session
\* open, the whole reply, message line and its newline included, has been
\* read: nothing of it waits to be taken for the next status line.
C2_MessageLineConsumed ==
  (Answered /\ last.reply.st = "E" /\ Alive(last.h))
    => inq[from_remote[last.h]] = <<>>

\* A call has returned from an E reply with the session open and the rest
\* of the message line still unread.
C2_MessageLineLeft ==
  /\ Answered /\ last.reply.st = "E" /\ Alive(last.h)
  /\ inq[from_remote[last.h]] = Tail(last.reply.msg) \o <<NL>>

\* C3: a call that receives F<n> fails with errno = n (EIO when n <= 0)
\* and both endpoints of the handle closed and reset to -1.
C3_FatalReply ==
  (last.op # "none" /\ Answered /\ last.reply.st = "F")
    => (/\ Failed
        /\ errno = Decoded(last.reply.n)
        /\ Dead(last.h)
        /\ OpenPipeEnds \subseteq HeldEnds)

\* rmt_read has received F<n>, n > 0, and has returned with errno = EIO.
C3_ReadFatalErrno ==
  /\ last.op = "read" /\ Answered
  /\ last.reply.st = "F" /\ last.reply.n > 0 /\ last.reply.n # EIO
  /\ last.ret = -1 /\ errno = EIO /\ Dead(last.h)

\* C4: every slot of the handle table has both endpoints open or both -1.
C4_EndpointsPaired ==
  \A h \in Handles : Alive(h) \/ Dead(h)

\* rmt_open has failed in the second pipe and has left the slot with the
\* sentinel as read endpoint and a descriptor number as write endpoint.
C4_MixedSlot ==
  /\ last.op = "open" /\ last.stage = "pipe2"
  /\ from_remote[last.h] = -1 /\ to_remote[last.h] # -1

\* C5: rmt_read of N bytes answered by A<k> and k bytes of payload,
\* 0 <= k <= N, returns k with those k bytes, in order, at the start of
\* the buffer and the rest of the buffer untouched; it reads nothing past
\* the payload and the session stays alive.
C5_ReadReturnsPayload ==
  (/\ last.op = "read" /\ Answered /\ last.reply.st = "A"
   /\ last.reply.n \in 0..last.len
   /\ Len(last.reply.data) = last.reply.n)
    => (/\ last.ret = last.reply.n
        /\ Len(last.buf) = last.len
        /\ \A i \in 1..last.len :
             last.buf[i] = IF i <= last.reply.n THEN last.reply.data[i]
                           ELSE Fill(last.len)[i]
        /\ Alive(last.h)
        /\ inq[from_remote[last.h]] = <<>>)

\* rmt_read has returned a payload that came in several short reads.
C5_ShortReads ==
  /\ last.op = "read" /\ Answered /\ last.reply.st = "A"
  /\ last.reply.n = last.len /\ Len(last.reply.data) = last.reply.n
  /\ last.reply.n > 1 /\ last.chunk = 1
  /\ last.ret = last.reply.n

\* C6: rmt_write of N bytes that has sent W<N>, a newline and the N bytes
\* returns N on A<N>, m on A<m> with 0 <= m < N, and on E<n> returns 0 with
\* errno the decoded number.
C6_WriteResult ==
  (last.op = "write" /\ Answered)
    => (/\ last.sent = <<"W">> \o Dec(last.len) \o <<NL>> \o Payload(last.len)
        /\ (last.reply.st = "A" /\ last.reply.n \in 0..last.len)
             => last.ret = last.reply.n
        /\ last.reply.st = "E"
             => (last.ret = 0 /\ errno = Decoded(last.reply.n)))

\* rmt_write has returned the count of a short acknowledgement.
C6_ShortCount ==
  /\ last.op = "write" /\ Answered /\ last.reply.st = "A"
  /\ last.reply.n > 0 /\ last.reply.n < last.len
  /\ last.ret = last.reply.n

\* C7 as stated: after rmt_write has returned m for the reply A<m>,
\* 0 <= m <= N, both endpoints of the handle are open.
C7_AckKeepsSession ==
  (/\ last.op = "write" /\ Answered /\ last.reply.st = "A"
   /\ last.reply.n \in 0..last.len /\ last.ret = last.reply.n)
    => Alive(last.h)

\* C7: rmt_write answered by A<N> returns N and leaves both endpoints of
\* the handle open, so that the next command can be sent; answered by
\* A<m>, 0 <= m < N, it returns m and shuts the session down with
\* errno = EIO.
C7_AckedWrite ==
  (/\ last.op = "write" /\ Answered /\ last.reply.st = "A"
   /\ last.reply.n \in 0..last.len)
    => (/\ last.ret = last.reply.n
        /\ last.reply.n = last.len => (Alive(last.h) /\ Writable(World, last.h))
        /\ last.reply.n < last.len
             => (/\ Dead(last.h) /\ errno = EIO
                 /\ ~Writable(World, last.h)
                 /\ OpenPipeEnds \subseteq HeldEnds))

\* rmt_write has returned a short count and the session is gone.
C7_ShortWriteShutsDown ==
  /\ last.op = "write" /\ Answered /\ last.reply.st = "A"
  /\ last.reply.n < last.len /\ last.ret = last.reply.n
  /\ Dead(last.h)

\* The text of the decimal number that ends at the newline at the end of
\* TEXT is the whole of TEXT but the newline, and its value is N.
NumberLine(text, n) ==
  /\ text # <<>> /\ text[Len(text)] = NL
  /\ \A i \in 1..(Len(text) - 1) : IsDigit(text[i]) \/ (i = 1 /\ text[i] = "-")
  /\ strtoimax(text).any /\ strtoimax(text).val = n

\* C8: rmt_lseek (h, off, whence) sends L<w>, a newline, off in decimal
\* and a newline, w being 0, 1, 2 for SEEK_SET, SEEK_CUR, SEEK_END; on the
\* reply A<off'> it returns off' when the offset type holds off', and -1
\* when off' is outside of its range.
C8_SeekResult ==
  (last.op = "lseek" /\ Answered)
    => (/\ Len(last.sent) > 3
        /\ SubSeq(last.sent, 1, 3)
             = <<"L", (CASE last.whence = "SEEK_SET" -> "0"
                         [] last.whence = "SEEK_CUR" -> "1"
                         [] last.whence = "SEEK_END" -> "2"), NL>>
        /\ NumberLine(SubSeq(last.sent, 4, Len(last.sent)), last.off)
        /\ (last.reply.st = "A" /\ last.reply.n \in (-OffMax - 1)..OffMax)
             => (last.ret = last.reply.n /\ Alive(last.h))
        /\ (last.reply.st = "A"
            /\ last.reply.n \notin (-OffMax - 1)..OffMax)
             => last.ret = -1)

\* rmt_lseek has returned -1 for an offset that the offset type does not
\* hold.
C8_Overflow ==
  /\ last.op = "lseek" /\ Answered /\ last.reply.st = "A"
  /\ last.reply.n > OffMax /\ last.ret = -1 /\ errno = ERANGE

\* C9: when rmt_close returns, whatever happened to its command and
\* whatever the reply, both endpoints of the handle are -1 and closed and
\* the scan of rmt_open stops at the slot or before it; rmt_close returns
\* the count of an A reply (a count that is not negative) and -1 in every
\* other case.
C9_CloseEndsSession ==
  last.op = "close"
    => (/\ Dead(last.h)
        /\ last.h \notin held
        /\ FindUnused(World, 0) <= last.h
        /\ OpenPipeEnds \subseteq HeldEnds
        /\ (Answered /\ last.reply.st = "A" /\ last.reply.n >= 0)
             => last.ret = last.reply.n
        /\ ~(Answered /\ last.reply.st = "A" /\ last.reply.n >= 0)
             => last.ret = -1)

\* rmt_close has returned 0 for the reply A0 and the slot is free.
C9_ClosedOnSuccess ==
  /\ last.op = "close" /\ Answered /\ last.reply.st = "A"
  /\ last.reply.n = 0 /\ last.ret = 0 /\ Dead(last.h)

\* C10: when rmt_open fails after it has chosen a slot, both endpoints of
\* the slot are -1 and the scan of the next rmt_open stops at that slot
\* again.
C10_FailedOpenReleases ==
  (last.op = "open" /\ last.stage \in {"pipe2", "fork", "command", "status"})
    => (last.ret = -1 /\ Dead(last.h) /\ FindUnused(World, 0) = last.h)

\* rmt_open has failed in fork: the slot keeps the numbers of the closed
\* descriptors, and the scan of the next rmt_open passes it by.
C10_SlotLost ==
  /\ last.op = "open" /\ last.stage = "fork" /\ last.ret = -1
  /\ ~Dead(last.h) /\ FindUnused(World, 0) > last.h

\* C11: a successful rmt_open uses the lowest slot whose two endpoints were
\* both -1 when it was called, and returns that slot plus the bias.
C11_LowestFreeSlot ==
  [][(last'.op = "open" /\ last'.stage = "ok")
       => (/\ Dead(last'.h)
           /\ \A g \in Handles : g < last'.h => ~Dead(g)
           /\ last'.ret = last'.h + last'.bias
           /\ Alive(last.h)'
           /\ \A g \in Handles \ {last'.h} :
                from_remote'[g] = from_remote[g] /\ to_remote'[g] = to_remote[g])
    ]_vars

\* rmt_open has returned slot 1 plus the bias while the sessions of slots
\* 0 and 2 are live.
C11_MiddleSlotReused ==
  /\ last.op = "open" /\ last.stage = "ok"
  /\ last.h = 1 /\ last.bias > 0 /\ last.ret = 1 + last.bias
  /\ Alive(0) /\ Alive(1) /\ Alive(2)

\* C12: with MAXUNIT sessions live, rmt_open fails with -1 and EMFILE; it
\* makes no pipe, forks no child, sends nothing and changes no descriptor and
\* no slot.
C12_TableFull ==
  [][(last'.op = "open" /\ \A h \in Handles : Alive(h))
       => (/\ last'.ret = -1 /\ errno' = EMFILE
           /\ last'.sent = <<>>
           /\ fds' = fds /\ inq' = inq
           /\ from_remote' = from_remote /\ to_remote' = to_remote
           /\ held' = held /\ children' = children)
    ]_vars

\* rmt_open has failed on a full table, all MAXUNIT sessions being live.
C12_FifthOpen ==
  /\ last.op = "open" /\ last.stage = "full"
  /\ last.ret = -1 /\ errno = EMFILE
  /\ \A h \in Handles : Alive(h)

\* C13: a release closes both pipes of the session and with that ends the
\* session's child, whatever was opened and released in between: every child
\* that has not exited belongs to a session whose pipe the parent still has
\* open, and the slot of a released handle has no open descriptor.
C13_ReleaseEndsChild ==
  /\ \A c \in children : c.wr # -1 /\ fds[c.wr] = "w"
  /\ (last.op = "close" => Dead(last.h))

\* rmt_close has released a session whose child has not exited: a child
\* forked for a later session holds the write end of its standard input.
C13_ChildOutlivesRelease ==
  /\ last.op = "close" /\ Dead(last.h)
  /\ \E c \in children :
       /\ c.slot = last.h /\ c.wr = -1
       /\ \E d \in children : d.wr # -1 /\ c.id \in d.holds

\* The part of C13 about the parent: a release leaves no descriptor of the
\* session open in the parent, and a child whose standard input no other
\* child holds has exited.
C13_ReleaseClosesPipes ==
  /\ (last.op = "close" => Dead(last.h))
  /\ \A c \in children :
       c.wr = -1 => \E d \in children : c.id \in d.holds

\* The file name of the last call has the character CH.
NameHas(ch) == \E i \in 1..Len(last.name) : last.name[i] = ch

\* The last call was an rmt_open that forked: it got past fork in the parent.
ForkedChild == last.stage \in {"crash", "command", "status", "ok"}

\* C14: rmt_open with a file name without ':' fails with -1 and ENOENT; it
\* forks no child and sends no O command.
C14_NoColonRejected ==
  (last.op = "open" /\ ~NameHas(":"))
    => (/\ last.ret = -1 /\ errno = ENOENT
        /\ ~ForkedChild /\ last.sent = <<>>)

\* rmt_open with a file name without ':' (and without newline) has made both
\* pipes and forked the child, and was then stopped by the fault of strlen
\* on the null remote_file: it has not returned.
C14_NoColonForks ==
  /\ last.op = "open" /\ ~NameHas(":") /\ ~NameHas(NL)
  /\ last.stage = "crash"
  /\ \E c \in children : c.slot = last.h /\ c.wr = to_remote[last.h]
  /\ Alive(last.h)

\* C15 as stated: rmt_open with a file name that has a newline fails with -1
\* and ENOENT, having sent nothing and forked nothing.
C15_NewlineENOENT ==
  (last.op = "open" /\ NameHas(NL))
    => (/\ last.ret = -1 /\ errno = ENOENT
        /\ ~ForkedChild /\ last.sent = <<>>)

\* C15, amended: rmt_open with a file name that has a newline, at any
\* position, fails with -1 before any pipe is made, any child is forked or any
\* byte is sent, and leaves the handle table as it was; errno is ENOENT when
\* a slot of the table is free and EMFILE when none is.
C15_NewlineRejected ==
  [][(last'.op = "open" /\ \E i \in 1..Len(last'.name) : last'.name[i] = NL)
       => (/\ last'.ret = -1
           /\ errno' = (IF \A h \in Handles : ~Dead(h) THEN EMFILE
                        ELSE ENOENT)
           /\ last'.sent = <<>>
           /\ fds' = fds /\ inq' = inq /\ children' = children
           /\ from_remote' = from_remote /\ to_remote' = to_remote
           /\ held' = held)
    ]_vars

\* rmt_open has rejected a file name whose first character is a newline,
\* while a session was live and a slot was free.
C15_LeadingNewline ==
  /\ last.op = "open" /\ last.name[1] = NL
  /\ last.stage = "newline" /\ last.ret = -1 /\ errno = ENOENT
  /\ \E h \in Handles : Alive(h)
  /\ \E h \in Handles : Dead(h)

\* C16: rmt_ioctl with a request other than MTIOCTOP and MTIOCGET returns -1
\* with errno EOPNOTSUPP; it writes and reads no byte and changes no endpoint
\* of this or of another handle (nor a descriptor, nor a child).
C16_UnsupportedRequest ==
  [][(last'.op = "ioctl" /\ last'.request \notin {"MTIOCTOP", "MTIOCGET"})
       => (/\ last'.ret = -1 /\ errno' = EOPNOTSUPP
           /\ last'.sent = <<>> /\ inq' = inq
           /\ from_remote' = from_remote /\ to_remote' = to_remote
           /\ fds' = fds /\ children' = children /\ held' = held)
    ]_vars

\* rmt_ioctl has refused a request on a live handle, another session being
\* live as well.
C16_RefusedOnLiveHandle ==
  /\ last.op = "ioctl" /\ last.request = "MTIOCPOS"
  /\ last.ret = -1 /\ errno = EOPNOTSUPP
  /\ Alive(last.h)
  /\ \E g \in Handles \ {last.h} : Alive(g)

\* C17: rmt_read of N bytes answered by A<S> with S > N returns -1 with errno
\* EIO and shuts the session down; it does not enter the loop that reads the
\* payload, and the caller's buffer is as it was, no byte stored.
C17_OversizedCount ==
  (/\ last.op = "read" /\ Answered /\ last.reply.st = "A"
   /\ last.reply.n > last.len)
    => (/\ last.ret = -1 /\ errno = EIO
        /\ Dead(last.h)
        /\ last.stage = "status"
        /\ last.buf = Fill(last.len))

\* rmt_read has been answered by a count above its length, with payload
\* behind it.
C17_CountAboveLength ==
  /\ last.op = "read" /\ Answered /\ last.reply.st = "A"
  /\ last.len > 0 /\ last.reply.n = last.len + 1
  /\ last.reply.data # <<>>
  /\ last.ret = -1 /\ errno = EIO /\ Dead(last.h)

\* The last call is one that reads a count status, and it was answered by a
\* success reply with a negative count.
NegativeCount ==
  /\ \/ last.op \in {"open", "close", "read", "write"}
     \/ last.op = "ioctl" /\ last.request \in {"MTIOCTOP", "MTIOCGET"}
  /\ Answered /\ last.reply.st = "A" /\ last.reply.n < 0

\* C18: an operation that reads a count status and is answered by A<n> with
\* n < 0 fails with errno EIO, and the session is shut down, both endpoints
\* -1, when it returns.
C18_NegativeCountFatal ==
  NegativeCount => (Failed /\ errno = EIO /\ Dead(last.h))

\* rmt_write, answered by a negative count, has failed with errno EIO and
\* has left both endpoints of the handle open.
C18_WriteKeepsSession ==
  /\ NegativeCount /\ last.op = "write"
  /\ last.ret = 0 /\ errno = EIO
  /\ Alive(last.h)

\* The part of C18 that holds: every such operation fails with errno EIO, and
\* rmt_open, rmt_close and rmt_read shut the session down.
C18_NegativeCountFails ==
  NegativeCount
    => (/\ Failed /\ errno = EIO
        /\ last.op \in {"open", "close", "read"} => Dead(last.h)
        /\ last.op \in {"write", "ioctl"} => Alive(last.h))

\* The length of the status line of reply R, its newline not counted.
LineLength(r) == r.sp + (IF r.st = "" THEN 0 ELSE 1 + Len(Dec(r.n)))

\* The last call is a tape operation of rmt_ioctl to which the peer has
\* replied: rmt_ioctl returns what get_status makes of the reply.
TapeOpAnswered ==
  last.op = "ioctl" /\ last.request = "MTIOCTOP" /\ Answered

\* The last call has ended as get_status ends for a reply with status letter
\* ST and number N: the count for A, -1 and the decoded errno for E and for
\* F, which also shuts the session down, and -1, EIO and a shutdown for
\* anything else.
Interpreted(st, n) ==
  CASE st = "A" /\ n >= 0 -> last.ret = n /\ Alive(last.h)
    [] st = "A" /\ n < 0 -> last.ret = -1 /\ errno = EIO /\ Alive(last.h)
    [] st = "E" -> last.ret = -1 /\ errno = Decoded(n) /\ Alive(last.h)
    [] st = "F" -> last.ret = -1 /\ errno = Decoded(n) /\ Dead(last.h)
    [] OTHER -> last.ret = -1 /\ errno = EIO /\ Dead(last.h)

\* The last call has ended in a shutdown with EIO.
Desynchronised == last.ret = -1 /\ errno = EIO /\ Dead(last.h)

\* What the first loop of get_status_string does with the bytes of the
\* reply to the last call.
LastLine == ReadStatusLine(Encode(last.reply), <<>>)

\* C19: a status line of at most COMMAND_BUFFER_SIZE - 1 bytes and a newline
\* is read whole, up to its newline, and parsed; of a longer one
\* COMMAND_BUFFER_SIZE bytes are read and no more, and the call ends in a
\* shutdown with errno EIO.  What is stored is never more than
\* COMMAND_BUFFER_SIZE bytes, the terminator included.
C19_LineBound ==
  TapeOpAnswered
    => (/\ Len(LastLine.line) + (IF LastLine.ok THEN 1 ELSE 0)
             <= COMMAND_BUFFER_SIZE
        /\ Len(Encode(last.reply)) - Len(LastLine.rest) <= COMMAND_BUFFER_SIZE
        /\ LineLength(last.reply) < COMMAND_BUFFER_SIZE
             => (/\ LastLine.ok
                 /\ Len(LastLine.line) = LineLength(last.reply)
                 /\ Interpreted(last.reply.st, last.reply.n))
        /\ LineLength(last.reply) >= COMMAND_BUFFER_SIZE
             => (/\ ~LastLine.ok
                 /\ Len(Encode(last.reply)) - Len(LastLine.rest)
                      = COMMAND_BUFFER_SIZE
                 /\ Desynchronised))

\* A status line of COMMAND_BUFFER_SIZE - 1 bytes has been accepted: the
\* tape operation has returned its count.
C19_LongestLineAccepted ==
  /\ TapeOpAnswered /\ last.reply.st = "A" /\ last.reply.n > 0
  /\ LineLength(last.reply) = COMMAND_BUFFER_SIZE - 1
  /\ last.ret = last.reply.n /\ Alive(last.h)

\* C20 as stated: whatever the number of spaces before it, the status
\* letter decides how the reply is taken, and a line without A, E or F as
\* its first character after the spaces ends in a shutdown with errno EIO.
C20_AnySpaces ==
  TapeOpAnswered => Interpreted(last.reply.st, last.reply.n)

\* C20, amended: the spaces before the status letter do not change how the
\* reply is taken as long as the line, spaces included, is shorter than
\* COMMAND_BUFFER_SIZE; a line without A, E or F as its first character
\* after the spaces (an empty line and a line of spaces among them) ends in
\* a shutdown with errno EIO, and so does every line that is longer.
C20_SpacesSkipped ==
  TapeOpAnswered
    => IF LineLength(last.reply) < COMMAND_BUFFER_SIZE
       THEN Interpreted(last.reply.st, last.reply.n)
       ELSE Desynchronised

\* An E reply behind as many spaces as the buffer has room for has been
\* taken as the error it reports, the session staying open.
C20_ErrorBehindSpaces ==
  /\ TapeOpAnswered /\ last.reply.st = "E" /\ last.reply.n > 0
  /\ last.reply.sp > 2
  /\ LineLength(last.reply) = COMMAND_BUFFER_SIZE - 1
  /\ last.ret = -1 /\ errno = last.reply.n /\ Alive(last.h)

\* The read that ends the reply to the last call returns zero: the peer has
\* sent nothing, or has closed its end within the status line, before the
\* message line of an E reply, or within the payload of rmt_read or of the
\* structure of MTIOCGET.
StreamEnds ==
  \/ last.reply.st = "none"
  \/ last.reply \in TruncatedReplies
  \/ /\ last.op = "read" /\ last.reply.st = "A"
     /\ last.reply.n \in 0..last.len
     /\ Len(last.reply.data) < last.reply.n
  \/ /\ last.op = "ioctl" /\ last.request = "MTIOCGET"
     /\ last.reply.st = "A" /\ last.reply.n = MtgetSize
     /\ Len(last.reply.data) < last.reply.n

\* The last call has met a failure of the transport: its command or the
\* payload of rmt_write was not written whole, or the peer's bytes ended
\* where the call waited for one.
TransportFailure ==
  /\ \/ DataCall \/ last.op = "close"
     \/ last.op = "open" /\ last.stage \in {"command", "status"}
  /\ \/ last.stage = "command"
     \/ last.op = "write" /\ last.stage = "payload"
     \/ last.sync /\ StreamEnds

First(name, ch) ==
  IF \E i \in 1..Len(name) : name[i] = ch
  THEN CHOOSE i \in 1..Len(name) :
         name[i] = ch /\ \A j \in 1..(i - 1) : name[j] # ch
  ELSE 0

\* The reference parse of [USER@]HOST:FILE, for a NAME that has a ':' at C
\* and its first '@', if any, at A: the file is what follows the first ':',
\* and the '@' splits off the user only when it comes before that ':'.
Reference(name, a, c) ==
  IF 0 < a /\ a < c
  THEN [user |-> SubSeq(name, 1, a - 1), host |-> SubSeq(name, a + 1, c - 1),
        file |-> SubSeq(name, c + 1, Len(name))]
  ELSE [user |-> <<>>, host |-> SubSeq(name, 1, c - 1),
        file |-> SubSeq(name, c + 1, Len(name))]

\* The last call is an rmt_open that has forked, of a name with a ':'.
ParsedName == last.op = "open" /\ ForkedChild /\ NameHas(":")

\* C22: user, host and file as rmt_open takes them from a name with a ':'
\* are those of the reference parse: only the first ':' separates, and only
\* an '@' before it.
C22_ReferenceParse ==
  ParsedName
    => last.parsed = Reference(last.name, First(last.name, "@"),
                               First(last.name, ":"))

\* rmt_open has taken the '@' behind the ':' for the end of a user name: the
\* host of the name has become the user, and the file is cut at the '@'.
C22_UserBehindColon ==
  /\ ParsedName
  /\ First(last.name, ":") < First(last.name, "@")
  /\ last.parsed.user = SubSeq(last.name, 1, First(last.name, ":") - 1)
  /\ last.parsed.user # <<>>
  /\ last.parsed.host = SubSeq(last.name, First(last.name, "@") + 1,
                               Len(last.name))
  /\ Len(last.parsed.file)
       = First(last.name, "@") - First(last.name, ":") - 1
  /\ last.stage = "ok"
  /\ last.sent = <<"O">> \o last.parsed.file \o <<NL>>
                 \o encode_oflags(last.len) \o <<NL>>

\* The part of C22 that holds: the reference parse is what rmt_open does
\* with every name that has no '@' behind its first ':'; and the file of
\* the O command is the file that was parsed.
C22_ParseUpToColon ==
  ParsedName
    => (/\ (\A i \in 1..Len(last.name) :
              last.name[i] # "@" \/ i < First(last.name, ":"))
             => (last.parsed = Reference(last.name, First(last.name, "@"),
                                         First(last.name, ":")))
        /\ (last.stage = "ok")
             => (last.sent = <<"O">> \o last.parsed.file \o <<NL>>
                             \o encode_oflags(last.len) \o <<NL>>))

\* C23: rmt_write of N bytes returns no more than N, whatever the peer
\* replies.
C23_WriteBounded == last.op = "write" => last.ret <= last.len

\* rmt_write of N bytes, N > 0, acknowledged by a count above N, has shut
\* the session down and has returned that count.
C23_CountAboveLength ==
  /\ last.op = "write" /\ Answered /\ last.reply.st = "A"
  /\ last.len > 0 /\ last.reply.n > last.len
  /\ last.ret = last.reply.n
  /\ errno = EIO /\ Dead(last.h)

\* The part of C23 that holds: rmt_write returns more than N only for an
\* acknowledgement A<m> with m > N, and then m.
C23_WriteBoundedButAck ==
  (last.op = "write" /\ last.ret > last.len)
    => (/\ last.reply.st = "A" /\ last.reply.cut = 0
        /\ last.ret = last.reply.n
        /\ Dead(last.h))

\* C24: a call on handle h, and an rmt_open that takes slot h, leaves the
\* endpoints of every other slot as they were: the two numbers in the
\* tables, and for a session that the caller holds and that is live, the
\* two descriptors open and the unread input of its read side.
C24_SessionIsolation ==
  [][last'.op # "none"
       => \A g \in Handles \ {last'.h} :
            /\ from_remote'[g] = from_remote[g]
            /\ to_remote'[g] = to_remote[g]
            /\ (g \in held /\ Alive(g))
                 => (Alive(g)' /\ inq'[from_remote[g]] = inq[from_remote[g]])
    ]_vars

\* rmt_close of a handle that was shut down before has written its command
\* into the pipe of another session and has closed that pipe's write end:
\* the other session, which the caller holds, has its read side open and
\* its write side closed.
C24_ClosedOtherSession ==
  /\ last.op = "close" /\ last.sent = <<"C", NL>> /\ Dead(last.h)
  /\ \E g \in held \ {last.h} :
       /\ from_remote[g] \in FdNums /\ fds[from_remote[g]] = "r"
       /\ to_remote[g] \in FdNums /\ fds[to_remote[g]] = "closed"

\* The part of C24 that holds: no call changes a number in the tables of
\* another slot.
C24_TableFrame ==
  [][last'.op # "none"
       => \A g \in Handles \ {last'.h} :
            from_remote'[g] = from_remote[g] /\ to_remote'[g] = to_remote[g]
    ]_vars

====
